---- MODULE Spec2Model ----
(***************************************************************************)
(* A model of logger.hpp (namespace impl::logger): the Output Mutex        *)
(* logger_sync, the Padding State logger_padding, the terminal attribute   *)
(* set by setup_color/reset_color, log/error, scopped_padding_extender,    *)
(* spin_waiter and loading_waiter.                                         *)
(*                                                                         *)
(* Every access to shared state (a lock, an atomic load or store, a        *)
(* console call, a printf) is one step of the calling thread.  The         *)
(* terminal is a screen of Rows lines of cells with a cursor and a         *)
(* current attribute; a printf writes its characters at the cursor.        *)
(* Lines have no right margin (the console width is outside the model).    *)
(* What the platform does after __debugbreak is outside the model: the     *)
(* trapping thread stops.                                                  *)
(***************************************************************************)
EXTENDS Integers, Sequences, FiniteSets, TLC

(***************************************************************************)
(* Bounds of the model.                                                    *)
(***************************************************************************)
NThreads == 2
Rows == 2
MaxTrace == 3
MaxDepth == 1
MaxTime == 1
MaxOverrun == 1
PadDepth == 3
LoadDepth == 2
MaxRedraws == 5
SpinDepth == 2
SpinTick == 50
SpinTicks == 10
MaxRacePadding == 12
ReentryDepth == 2

Threads == 1..NThreads

(***************************************************************************)
(* win_console_colors (Windows.h: FOREGROUND_BLUE 1, FOREGROUND_GREEN 2,   *)
(* FOREGROUND_RED 4, FOREGROUND_INTENSITY 8).                              *)
(***************************************************************************)
wcon_black == 0
wcon_gray == 7
wcon_white == 15
wcon_red == 12
wcon_green == 10
wcon_blue == 9
wcon_cyan == 11
wcon_magenta == 13
wcon_yellow == 14
wcon_dark_gray == 8
wcon_dark_red == 4
wcon_dark_green == 2
wcon_dark_blue == 1
wcon_dark_cyan == 3
wcon_dark_magenta == 5
wcon_dark_yellow == 6

win_console_colors ==
  { wcon_black, wcon_gray, wcon_white, wcon_red, wcon_green, wcon_blue,
    wcon_cyan, wcon_magenta, wcon_yellow, wcon_dark_gray, wcon_dark_red,
    wcon_dark_green, wcon_dark_blue, wcon_dark_cyan, wcon_dark_magenta,
    wcon_dark_yellow }

(***************************************************************************)
(* std::uint8_t arithmetic: logger_padding is a std::atomic_uint8_t.       *)
(***************************************************************************)
Uint8 == 256

(***************************************************************************)
(* Characters are one-character strings.  CR and LF are the two control    *)
(* characters the code prints; 0xC4 and 0xFE are the two glyphs of the     *)
(* console code page the widgets use.                                      *)
(***************************************************************************)
CR == "\r"
LF == "\n"
SP == " "
GlyphC4 == "="
GlyphFE == "#"
Garbage == "?"

\* n copies of the character c: what "%*s" prints for the argument "" and width n
RECURSIVE Repeat(_, _)
Repeat(c, n) == IF n <= 0 THEN << >> ELSE <<c>> \o Repeat(c, n - 1)

\* printf's "%*s" with the string argument "": the field is padded to the width
PadField(width) == Repeat(SP, width)

(***************************************************************************)
(* The terminal: some lines of cells, the cursor (line cy, column cx,      *)
(* columns counted from 0).  A line is the sequence of its written cells;  *)
(* a cell beyond its end is blank.                                         *)
(***************************************************************************)
EmptyLine == << >>

BlankScreen(rows) == [lines |-> [r \in 1..rows |-> EmptyLine], cy |-> 1, cx |-> 0]

\* the cell at column x (from 0) of a line
CellAt(line, x) == IF x < Len(line) THEN line[x + 1] ELSE SP

\* the line with the character c stored at column x
SetCell(line, x, c) ==
  IF x < Len(line) THEN [line EXCEPT ![x + 1] = c]
  ELSE line \o Repeat(SP, x - Len(line)) \o <<c>>

\* line feed: the cursor goes to the start of the next line; on the last
\* line the screen scrolls up by one line
NewLine(s) ==
  LET rows == Len(s.lines)
  IN  IF s.cy < rows THEN [s EXCEPT !.cy = s.cy + 1, !.cx = 0]
      ELSE [s EXCEPT !.lines = [r \in 1..rows |->
                                  IF r < rows THEN s.lines[r + 1] ELSE EmptyLine],
                     !.cx = 0]

\* one character sent to the console
PutChar(s, c) ==
  IF c = CR THEN [s EXCEPT !.cx = 0]
  ELSE IF c = LF THEN NewLine(s)
  ELSE [s EXCEPT !.lines[s.cy] = SetCell(s.lines[s.cy], s.cx, c),
                 !.cx = s.cx + 1]

\* the characters of one printf, sent in order
RECURSIVE PutString(_, _)
PutString(s, str) ==
  IF str = << >> THEN s ELSE PutString(PutChar(s, Head(str)), Tail(str))

(***************************************************************************)
(* utils::setup_color and utils::reset_color with a valid output handle:   *)
(* SetConsoleTextAttribute makes clr the current attribute.                *)
(***************************************************************************)
\* a setup_color that sets nothing
setup_color_ignored(old_attr, clr) == old_attr

\* SetConsoleTextAttribute( handle, clr )
setup_color(old_attr, clr) == clr

\* a reset_color that leaves the attribute as it is
reset_color_keeps(old_attr) == old_attr

reset_color(old_attr) == setup_color(old_attr, wcon_gray)

(***************************************************************************)
(* The terminal event trace: the last MaxTrace events, each either a       *)
(* change of the attribute ("color") or one printf ("write"), with the     *)
(* thread and the operation that made it, the attribute in force, the      *)
(* characters written and the argument the operation was called with.      *)
(***************************************************************************)
Event(t, op, ev, a, out, arg) ==
  [thr |-> t, op |-> op, ev |-> ev, attr |-> a, out |-> out, arg |-> arg]

Record(tr, e) ==
  IF Len(tr) < MaxTrace THEN Append(tr, e) ELSE Append(Tail(tr), e)

(***************************************************************************)
(* IEEE-754 single precision, as far as loading_waiter::update uses it.    *)
(* A non-negative float is [m, n], the value m / 2^n, with m below 2^24    *)
(* after rounding to nearest, ties to even.  Integers below 2^24 convert   *)
(* to float exactly.                                                       *)
(***************************************************************************)
Pow2(n) == 2 ^ n

F32Mant == 24

Abs(x) == IF x < 0 THEN -x ELSE x

Min(a, b) == IF a < b THEN a ELSE b

\* round to nearest, ties to even: q with the dropped part rem out of unit
RoundNearestEven(q, rem, unit) ==
  IF 2 * rem > unit \/ (2 * rem = unit /\ q % 2 = 1) THEN q + 1 ELSE q

\* binary long division: quotient bits are produced until the significand
\* m has F32Mant bits; r is the remainder, n the count of fraction bits
RECURSIVE DivBits(_, _, _, _)
DivBits(m, r, n, d) ==
  IF m >= Pow2(F32Mant - 1) THEN [m |-> RoundNearestEven(m, r, d), n |-> n]
  ELSE IF 2 * r >= d THEN DivBits(2 * m + 1, 2 * r - d, n + 1, d)
  ELSE DivBits(2 * m, 2 * r, n + 1, d)

\* float(c) / float(d) for integers 0 <= c, 0 < d
F32Div(c, d) ==
  IF c = 0 THEN [m |-> 0, n |-> 0] ELSE DivBits(c \div d, c % d, 0, d)

\* the number of low bits a product must drop to fit F32Mant bits
RECURSIVE ExcessBits(_)
ExcessBits(p) == IF p < Pow2(F32Mant) THEN 0 ELSE 1 + ExcessBits(p \div 2)

\* the float x times the small integer k (converted to float exactly)
F32MulInt(x, k) ==
  LET p == x.m * k
      s == ExcessBits(p)
  IN  [m |-> RoundNearestEven(p \div Pow2(s), p % Pow2(s), Pow2(s)), n |-> x.n - s]

\* static_cast<int> of a non-negative float: the fraction is dropped
F32ToInt(x) == IF x.n > 30 THEN 0 ELSE x.m \div Pow2(x.n)

(***************************************************************************)
(* loading_waiter<int>::update: the numbers it computes.                   *)
(***************************************************************************)
length == 10

\* std::min<T>( current_value, max_value ) / static_cast<float>( max_value ):
\* the sign and the magnitude of the float quotient
percentage(current_value, max_value) ==
  LET c == Min(current_value, max_value)
  IN  [neg |-> c < 0, mag |-> F32Div(Abs(c), max_value)]

\* static_cast<int>( percentage * k ): conversion truncates toward zero
ScaledInt(pctg, k) ==
  LET v == F32ToInt(F32MulInt(pctg.mag, k))
  IN  IF pctg.neg THEN -v ELSE v

\* percent = static_cast<int>( percentage * 100 )
percent(pctg) == ScaledInt(pctg, 100)

\* count_to_draw = static_cast<int>( percentage * length )
count_to_draw(pctg) == ScaledInt(pctg, length)

\* count_to_skip = length - count_to_draw
count_to_skip(draw) == length - draw

(***************************************************************************)
(* printf conversions the widgets use.                                     *)
(***************************************************************************)
DigitChar == <<"0", "1", "2", "3", "4", "5", "6", "7", "8", "9">>

RECURSIVE DecDigits(_)
DecDigits(n) ==
  IF n < 10 THEN <<DigitChar[n + 1]>>
  ELSE DecDigits(n \div 10) \o <<DigitChar[(n % 10) + 1]>>

\* "%d"
DecString(n) == IF n < 0 THEN <<"-">> \o DecDigits(-n) ELSE DecDigits(n)

\* full_line: ten bytes 0xFE and no terminating zero
full_line == Repeat(GlyphFE, length)

\* "%.*s" of full_line.data(): a precision >= 0 prints at most that many
\* bytes; a negative precision counts as no precision, and printf then reads
\* past the ten bytes up to the next zero byte (undefined behaviour:
\* overrun is the number of bytes it finds there)
PrecisionField(precision, overrun) ==
  IF precision >= 0 THEN SubSeq(full_line, 1, Min(precision, length))
  ELSE full_line \o Repeat(Garbage, overrun)

\* "%*s" of "": a negative width left-justifies in a field of the absolute width
WidthField(width) == PadField(Abs(width))

\* "\r%*s%d%%[%.*s%*s]"
LoadingFormat(padding, pct, draw, skip, overrun) ==
  <<CR>> \o WidthField(padding) \o DecString(pct) \o <<"%", "[">>
    \o PrecisionField(draw, overrun) \o WidthField(skip) \o <<"]">>

(***************************************************************************)
(* The state.                                                              *)
(*   logger_sync     the Output Mutex: its owning thread, 0 when free      *)
(*   logger_padding  the Padding State, a std::atomic_uint8_t              *)
(*   attr            the console's current text attribute                  *)
(*   screen          the console's cells and cursor                        *)
(*   trace           the last MaxTrace terminal events                     *)
(*   now             the clock, in milliseconds                            *)
(*   pc              where each thread is                                  *)
(*   frame           the locals of the call each thread is in, with the    *)
(*                   steps the call has completed: <<"lock", owner>>,      *)
(*                   <<"color", attribute>>, <<"write", count>>,           *)
(*                   <<"unlock", owner>>, <<"trap", 0>>                    *)
(*   scopes          each thread's live scoped objects, innermost last     *)
(***************************************************************************)
VARIABLES logger_sync, logger_padding, attr, screen, trace, now, pc, frame, scopes,
          out_handle

vars == <<logger_sync, logger_padding, attr, screen, trace, now, pc, frame, scopes,
         out_handle>>

update_rate_ms == 100

\* what GetStdHandle( STD_OUTPUT_HANDLE ) returns: the handle of the console,
\* or INVALID_HANDLE_VALUE when the call fails.  It is a property of the
\* process: nothing in the program changes it.
CONSOLE_HANDLE == "console"

INVALID_HANDLE_VALUE == "invalid"

StdHandles == {CONSOLE_HANDLE, INVALID_HANDLE_VALUE}

animation == <<"\\", "|", "/", GlyphC4>>

NoFrame ==
  [op |-> "none", color |-> 0, text |-> << >>, arg |-> 0, clear |-> FALSE,
   pad |-> 0, out |-> << >>, ret |-> 0, steps |-> << >>]

NewFrame(op) == [NoFrame EXCEPT !.op = op]

\* a scoped object: its kind and its members; of an extender also the
\* constructor's argument current_pad and the Padding State the constructor
\* found (entry_padding), which the object does not store; of a spin_waiter
\* also the time its constructor read (created) and its last MaxRedraws
\* redraws, each the glyph printed and the time of the printf
NoScope ==
  [kind |-> "none", restore_pad |-> 0, should_clear_on_release |-> FALSE,
   sequence |-> 0, last_update_time |-> 0, max_value |-> 0, last_drawn_count |-> 0,
   current_pad |-> 0, entry_padding |-> 0, created |-> 0, redraws |-> << >>]

IsWidget(o) == o.kind \in {"spin", "load"}

\* the thread owns a live spin_waiter or loading_waiter
OwnsWidget(t) == \E i \in DOMAIN scopes[t] : IsWidget(scopes[t][i])

Top(t) == scopes[t][Len(scopes[t])]

Pop(stack) == SubSeq(stack, 1, Len(stack) - 1)

Done(t, step) == [frame[t] EXCEPT !.steps = Append(@, step)]

Init ==
  /\ out_handle = CONSOLE_HANDLE
  /\ logger_sync = 0
  /\ logger_padding = 0
  /\ attr = wcon_gray
  /\ screen = BlankScreen(1)
  /\ trace = << >>
  /\ now = 0
  /\ pc = [t \in Threads |-> "idle"]
  /\ frame = [t \in Threads |-> NoFrame]
  /\ scopes = [t \in Threads |-> << >>]

(***************************************************************************)
(* log<color>( format, parameters... ).  text is what format and the       *)
(* parameters format to.                                                   *)
(***************************************************************************)
\* the mutex after unlock() by its owner
unlock(owner) == 0

\* the caller enters log
LogCall(t, color, text) ==
  /\ pc[t] = "idle"
  /\ frame' = [frame EXCEPT ![t] = [NewFrame("log") EXCEPT !.color = color, !.text = text]]
  /\ pc' = [pc EXCEPT ![t] = "log_lock"]
  /\ UNCHANGED <<out_handle, logger_sync, logger_padding, attr, screen, trace, now, scopes>>

\* log without its lock_guard: the call goes on without the mutex
LogLockMissing(t) ==
  /\ pc[t] = "log_lock"
  /\ frame' = [frame EXCEPT ![t] = Done(t, <<"lock", t>>)]
  /\ pc' = [pc EXCEPT ![t] = "log_color"]
  /\ UNCHANGED <<out_handle, logger_sync, logger_padding, attr, screen, trace, now, scopes>>

\* std::lock_guard guard( logger_sync ): blocks while the mutex is owned
LogLock(t) ==
  /\ pc[t] = "log_lock"
  /\ logger_sync = 0
  /\ logger_sync' = t
  /\ frame' = [frame EXCEPT ![t] = Done(t, <<"lock", t>>)]
  /\ pc' = [pc EXCEPT ![t] = "log_color"]
  /\ UNCHANGED <<out_handle, logger_padding, attr, screen, trace, now, scopes>>

\* setup_color with the handle missing, going on as if nothing had happened
LogSetColorFallsBack(t) ==
  /\ pc[t] = "log_color"
  /\ out_handle = INVALID_HANDLE_VALUE
  /\ frame' = [frame EXCEPT ![t] = Done(t, <<"color", attr>>)]
  /\ pc' = [pc EXCEPT ![t] = "log_printf"]
  /\ UNCHANGED <<out_handle, logger_sync, logger_padding, attr, screen, trace, now, scopes>>

\* utils::setup_color( color ) in log when GetStdHandle returns
\* INVALID_HANDLE_VALUE: __debugbreak(), and SetConsoleTextAttribute is not
\* called.  The thread stops at the trap, inside log, its guard alive.
LogSetColorTraps(t) ==
  /\ pc[t] = "log_color"
  /\ out_handle = INVALID_HANDLE_VALUE
  /\ frame' = [frame EXCEPT ![t] = Done(t, <<"trap", 0>>)]
  /\ pc' = [pc EXCEPT ![t] = "trapped"]
  /\ UNCHANGED <<out_handle, logger_sync, logger_padding, attr, screen, trace, now, scopes>>

\* utils::setup_color( color ) in log with a handle: SetConsoleTextAttribute
LogSetColor(t) ==
  /\ pc[t] = "log_color"
  /\ out_handle # INVALID_HANDLE_VALUE
  /\ attr' = setup_color(attr, frame[t].color)
  /\ trace' = Record(trace, Event(t, frame[t].op, "color", attr', << >>, 0))
  /\ frame' = [frame EXCEPT ![t] = Done(t, <<"color", attr'>>)]
  /\ pc' = [pc EXCEPT ![t] = "log_printf"]
  /\ UNCHANGED <<out_handle, logger_sync, logger_padding, screen, now, scopes>>

\* the format without the "%*s" prefix
LogFormatNoPadding(padding, text) == text

\* what printf( "%*s" + format, logger_padding.load(), "", parameters... ) prints
LogFormat(padding, text) == PadField(padding) \o text

\* the printf of log: the padding is loaded, the line is written, the count
\* of characters written is chars_count_ret
LogPrintf(t) ==
  LET out == LogFormat(logger_padding, frame[t].text)
  IN  /\ pc[t] = "log_printf"
      /\ screen' = PutString(screen, out)
      /\ trace' = Record(trace, Event(t, frame[t].op, "write", attr, out, 0))
      /\ frame' = [frame EXCEPT ![t] =
                     [Done(t, <<"write", Len(out)>>) EXCEPT !.pad = logger_padding, !.out = out,
                                              !.ret = Len(out)]]
      /\ pc' = [pc EXCEPT ![t] = "log_reset"]
      /\ UNCHANGED <<out_handle, logger_sync, logger_padding, attr, now, scopes>>

\* utils::reset_color()
LogResetColor(t) ==
  /\ pc[t] = "log_reset"
  /\ out_handle # INVALID_HANDLE_VALUE
  /\ attr' = reset_color(attr)
  /\ trace' = Record(trace, Event(t, frame[t].op, "color", attr', << >>, 0))
  /\ frame' = [frame EXCEPT ![t] = Done(t, <<"color", attr'>>)]
  /\ pc' = [pc EXCEPT ![t] = "log_return"]
  /\ UNCHANGED <<out_handle, logger_sync, logger_padding, screen, now, scopes>>

\* error without its __debugbreak()
AfterLogNoTrap(op) == "idle"

\* where log returns to: its caller, or error, which called it
AfterLog(op) == IF op = "error" THEN "err_break" ELSE "idle"

\* return chars_count_ret: the guard's destructor unlocks the mutex
LogReturn(t) ==
  /\ pc[t] = "log_return"
  /\ logger_sync' = unlock(logger_sync)
  /\ frame' = [frame EXCEPT ![t] =
                 IF AfterLog(frame[t].op) = "idle" THEN NoFrame ELSE Done(t, <<"unlock", logger_sync'>>)]
  /\ pc' = [pc EXCEPT ![t] = AfterLog(frame[t].op)]
  /\ UNCHANGED <<out_handle, logger_padding, attr, screen, trace, now, scopes>>

(***************************************************************************)
(* error( format, parameters... ): log<wcon_red>, then __debugbreak().     *)
(***************************************************************************)
ErrorCall(t, text) ==
  /\ pc[t] = "idle"
  /\ frame' = [frame EXCEPT ![t] =
                 [NewFrame("error") EXCEPT !.color = wcon_red, !.text = text]]
  /\ pc' = [pc EXCEPT ![t] = "log_lock"]
  /\ UNCHANGED <<out_handle, logger_sync, logger_padding, attr, screen, trace, now, scopes>>

\* __debugbreak(): the thread stops in the trap
DebugBreak(t) ==
  /\ pc[t] = "err_break"
  /\ frame' = [frame EXCEPT ![t] = Done(t, <<"trap", 0>>)]
  /\ pc' = [pc EXCEPT ![t] = "trapped"]
  /\ UNCHANGED <<out_handle, logger_sync, logger_padding, attr, screen, trace, now, scopes>>

(***************************************************************************)
(* scopped_padding_extender.                                               *)
(***************************************************************************)
\* an add that stops at the largest value instead of wrapping
fetch_add_saturating(value, current_pad) == Min(value + current_pad, Uint8 - 1)

\* std::atomic_uint8_t::fetch_add: the new value, modulo 2^8
fetch_add(value, current_pad) == (value + current_pad) % Uint8

\* a snapshot taken after the add
SnapshotAfterAdd(value, current_pad) == fetch_add(value, current_pad)

\* restore_pad = logger_padding, before the add
Snapshot(value, current_pad) == value

\* a destructor that does not store
RestoredPaddingKept(value, restore_pad) == value

\* the value the destructor stores: logger_padding = restore_pad
RestoredPadding(value, restore_pad) == restore_pad

\* the constructor's first statement: restore_pad = logger_padding
ExtCtorLoad(t, current_pad) ==
  /\ pc[t] = "idle"
  /\ frame' = [frame EXCEPT ![t] =
                 [NewFrame("extender") EXCEPT !.arg = current_pad,
                                              !.pad = Snapshot(logger_padding, current_pad),
                                              !.ret = logger_padding]]
  /\ pc' = [pc EXCEPT ![t] = "ext_add"]
  /\ UNCHANGED <<out_handle, logger_sync, logger_padding, attr, screen, trace, now, scopes>>

\* a constructor that adds only when the Output Mutex is free
ExtCtorAddWaits(t) ==
  /\ pc[t] = "ext_add"
  /\ logger_sync = 0
  /\ logger_padding' = fetch_add(logger_padding, frame[t].arg)
  /\ scopes' = [scopes EXCEPT ![t] =
                  Append(@, [NoScope EXCEPT !.kind = "pad", !.restore_pad = frame[t].pad,
                                            !.current_pad = frame[t].arg,
                                            !.entry_padding = frame[t].ret])]
  /\ frame' = [frame EXCEPT ![t] = NoFrame]
  /\ pc' = [pc EXCEPT ![t] = "idle"]
  /\ UNCHANGED <<out_handle, logger_sync, attr, screen, trace, now>>

\* the constructor's second statement: logger_padding.fetch_add( current_pad )
ExtCtorAdd(t) ==
  /\ pc[t] = "ext_add"
  /\ logger_padding' = fetch_add(logger_padding, frame[t].arg)
  /\ scopes' = [scopes EXCEPT ![t] =
                  Append(@, [NoScope EXCEPT !.kind = "pad", !.restore_pad = frame[t].pad,
                                            !.current_pad = frame[t].arg,
                                            !.entry_padding = frame[t].ret])]
  /\ frame' = [frame EXCEPT ![t] = NoFrame]
  /\ pc' = [pc EXCEPT ![t] = "idle"]
  /\ UNCHANGED <<out_handle, logger_sync, attr, screen, trace, now>>

\* the destructor of the innermost live object, an extender: the store
ExtDtorStore(t) ==
  /\ pc[t] = "idle"
  /\ scopes[t] # << >>
  /\ Top(t).kind = "pad"
  /\ logger_padding' = RestoredPadding(logger_padding, Top(t).restore_pad)
  /\ frame' = [frame EXCEPT ![t] = NewFrame("ext_dtor")]
  /\ pc' = [pc EXCEPT ![t] = "ext_ret"]
  /\ UNCHANGED <<out_handle, logger_sync, attr, screen, trace, now, scopes>>

\* the destructor returns; the object is gone
ExtDtorReturn(t) ==
  /\ pc[t] = "ext_ret"
  /\ scopes' = [scopes EXCEPT ![t] = Pop(@)]
  /\ frame' = [frame EXCEPT ![t] = NoFrame]
  /\ pc' = [pc EXCEPT ![t] = "idle"]
  /\ UNCHANGED <<out_handle, logger_sync, logger_padding, attr, screen, trace, now>>

(***************************************************************************)
(* spin_waiter.                                                            *)
(***************************************************************************)
\* the caller constructs a spin_waiter
SpinCall(t, clear) ==
  /\ pc[t] = "idle"
  /\ frame' = [frame EXCEPT ![t] = [NewFrame("spin") EXCEPT !.clear = clear]]
  /\ pc' = [pc EXCEPT ![t] = "spin_lock"]
  /\ UNCHANGED <<out_handle, logger_sync, logger_padding, attr, screen, trace, now, scopes>>

\* logger_sync.lock()
SpinLock(t) ==
  /\ pc[t] = "spin_lock"
  /\ logger_sync = 0
  /\ logger_sync' = t
  /\ frame' = [frame EXCEPT ![t] = Done(t, <<"lock", t>>)]
  /\ pc' = [pc EXCEPT ![t] = "spin_time"]
  /\ UNCHANGED <<out_handle, logger_padding, attr, screen, trace, now, scopes>>

\* last_update_time = now(); the constructor returns
SpinCtorTime(t) ==
  /\ pc[t] = "spin_time"
  /\ scopes' = [scopes EXCEPT ![t] =
                  Append(@, [NoScope EXCEPT !.kind = "spin",
                                            !.should_clear_on_release = frame[t].clear,
                                            !.last_update_time = now,
                                            !.created = now])]
  /\ frame' = [frame EXCEPT ![t] = NoFrame]
  /\ pc' = [pc EXCEPT ![t] = "idle"]
  /\ UNCHANGED <<out_handle, logger_sync, logger_padding, attr, screen, trace, now>>

\* the index in scopes[t] of the object a member call is made on
Objects(t, kind) == {i \in DOMAIN scopes[t] : scopes[t][i].kind = kind}

\* update(): delta = now() - last_update_time
SpinUpdateCall(t) ==
  /\ pc[t] = "idle"
  /\ \E i \in Objects(t, "spin") :
       frame' = [frame EXCEPT ![t] =
                   [NewFrame("spin_update") EXCEPT
                      !.arg = i, !.ret = now - scopes[t][i].last_update_time]]
  /\ pc' = [pc EXCEPT ![t] = "spin_delta"]
  /\ UNCHANGED <<out_handle, logger_sync, logger_padding, attr, screen, trace, now, scopes>>

\* an update that never returns early
RateLimitedNever(delta) == FALSE

\* if ( delta.count() < update_rate_ms ) return
RateLimited(delta) == delta < update_rate_ms

SpinUpdateSkip(t) ==
  /\ pc[t] = "spin_delta"
  /\ RateLimited(frame[t].ret)
  /\ frame' = [frame EXCEPT ![t] = NoFrame]
  /\ pc' = [pc EXCEPT ![t] = "idle"]
  /\ UNCHANGED <<out_handle, logger_sync, logger_padding, attr, screen, trace, now, scopes>>

\* an update that skips a frame
NextSequenceSkips(sequence) == (sequence + 2) % Len(animation)

\* sequence = ( sequence + 1 ) % sizeof( animation )
NextSequence(sequence) == (sequence + 1) % Len(animation)

\* "%*s%c\r"
SpinFormat(padding, glyph) == WidthField(padding) \o <<glyph>> \o <<CR>>

\* the redraws of a spin_waiter with one more, the oldest dropped beyond
\* MaxRedraws
Redrawn(redraws, glyph, at) ==
  LET all == Append(redraws, [glyph |-> glyph, at |-> at])
  IN  IF Len(all) > MaxRedraws THEN Tail(all) ELSE all

\* the sequence advances and the frame is printed
SpinUpdateDraw(t) ==
  LET i == frame[t].arg
      seq == NextSequence(scopes[t][i].sequence)
      out == SpinFormat(logger_padding, animation[seq + 1])
  IN  /\ pc[t] = "spin_delta"
      /\ ~RateLimited(frame[t].ret)
      /\ scopes' = [scopes EXCEPT ![t][i].sequence = seq,
                                  ![t][i].redraws =
                                    Redrawn(@, animation[seq + 1], now)]
      /\ screen' = PutString(screen, out)
      /\ trace' = Record(trace, Event(t, "spin_update", "write", attr, out, 0))
      /\ frame' = [frame EXCEPT ![t] = [Done(t, <<"write", Len(out)>>) EXCEPT !.out = out]]
      /\ pc' = [pc EXCEPT ![t] = "spin_stamp"]
      /\ UNCHANGED <<out_handle, logger_sync, logger_padding, attr, now>>

\* last_update_time = now(); update returns
SpinUpdateStamp(t) ==
  /\ pc[t] = "spin_stamp"
  /\ scopes' = [scopes EXCEPT ![t][frame[t].arg].last_update_time = now]
  /\ frame' = [frame EXCEPT ![t] = NoFrame]
  /\ pc' = [pc EXCEPT ![t] = "idle"]
  /\ UNCHANGED <<out_handle, logger_sync, logger_padding, attr, screen, trace, now>>

\* what ~spin_waiter prints: should_clear_on_release ? "\r" : "\n"
SpinRelease(clear) == IF clear THEN <<CR>> ELSE <<LF>>

\* ~spin_waiter of the innermost live object: the printf
SpinDtorPrint(t) ==
  LET out == SpinRelease(Top(t).should_clear_on_release)
  IN  /\ pc[t] = "idle"
      /\ scopes[t] # << >>
      /\ Top(t).kind = "spin"
      /\ screen' = PutString(screen, out)
      /\ trace' = Record(trace, Event(t, "spin_dtor", "write", attr, out, 0))
      /\ frame' = [frame EXCEPT ![t] = [NewFrame("spin_dtor") EXCEPT !.steps = <<<<"write", Len(out)>>>>]]
      /\ pc' = [pc EXCEPT ![t] = "spin_unlock"]
      /\ UNCHANGED <<out_handle, logger_sync, logger_padding, attr, now, scopes>>

\* a destructor that keeps the mutex locked
SpinDtorKeepsLock(t) ==
  /\ pc[t] = "spin_unlock"
  /\ scopes' = [scopes EXCEPT ![t] = Pop(@)]
  /\ frame' = [frame EXCEPT ![t] = NoFrame]
  /\ pc' = [pc EXCEPT ![t] = "idle"]
  /\ UNCHANGED <<out_handle, logger_sync, logger_padding, attr, screen, trace, now>>

\* ~spin_waiter: logger_sync.unlock(); the object is gone
SpinDtorUnlock(t) ==
  /\ pc[t] = "spin_unlock"
  /\ logger_sync' = unlock(logger_sync)
  /\ scopes' = [scopes EXCEPT ![t] = Pop(@)]
  /\ frame' = [frame EXCEPT ![t] = NoFrame]
  /\ pc' = [pc EXCEPT ![t] = "idle"]
  /\ UNCHANGED <<out_handle, logger_padding, attr, screen, trace, now>>

(***************************************************************************)
(* loading_waiter<int>.                                                    *)
(***************************************************************************)
\* the caller constructs a loading_waiter
LoadCall(t, t_max_value, clear) ==
  /\ pc[t] = "idle"
  /\ frame' = [frame EXCEPT ![t] =
                 [NewFrame("load") EXCEPT !.arg = t_max_value, !.clear = clear]]
  /\ pc' = [pc EXCEPT ![t] = "load_lock"]
  /\ UNCHANGED <<out_handle, logger_sync, logger_padding, attr, screen, trace, now, scopes>>

\* a constructor that does not lock
LoadLockMissing(t) ==
  /\ pc[t] = "load_lock"
  /\ scopes' = [scopes EXCEPT ![t] =
                  Append(@, [NoScope EXCEPT !.kind = "load",
                                            !.should_clear_on_release = frame[t].clear,
                                            !.max_value = frame[t].arg])]
  /\ frame' = [frame EXCEPT ![t] = NoFrame]
  /\ pc' = [pc EXCEPT ![t] = "idle"]
  /\ UNCHANGED <<out_handle, logger_sync, logger_padding, attr, screen, trace, now>>

\* logger_sync.lock(); the constructor returns
LoadLock(t) ==
  /\ pc[t] = "load_lock"
  /\ logger_sync = 0
  /\ logger_sync' = t
  /\ scopes' = [scopes EXCEPT ![t] =
                  Append(@, [NoScope EXCEPT !.kind = "load",
                                            !.should_clear_on_release = frame[t].clear,
                                            !.max_value = frame[t].arg])]
  /\ frame' = [frame EXCEPT ![t] = NoFrame]
  /\ pc' = [pc EXCEPT ![t] = "idle"]
  /\ UNCHANGED <<out_handle, logger_padding, attr, screen, trace, now>>

\* the bytes "%.*s" may find after full_line: none when the precision bounds
\* the read, any number up to MaxOverrun when it does not
Overruns(draw) == IF draw < 0 THEN 0..MaxOverrun ELSE {0}

\* what update( current_value ) prints with the padding it loads
LoadingOutput(padding, pctg, overrun) ==
  LoadingFormat(padding, percent(pctg), count_to_draw(pctg),
                count_to_skip(count_to_draw(pctg)), overrun)

\* update( current_value ): one printf; its result is last_drawn_count
LoadUpdate(t, current_value) ==
  /\ pc[t] = "idle"
  /\ \E i \in Objects(t, "load") :
       LET pctg == percentage(current_value, scopes[t][i].max_value)
       IN  \E k \in Overruns(count_to_draw(pctg)) :
             LET out == LoadingOutput(logger_padding, pctg, k)
             IN  /\ screen' = PutString(screen, out)
                 /\ trace' = Record(trace, Event(t, "load_update", "write", attr,
                                                  out, current_value))
                 /\ scopes' = [scopes EXCEPT ![t][i].last_drawn_count = Len(out)]
  /\ UNCHANGED <<out_handle, logger_sync, logger_padding, attr, now, pc, frame>>

\* what ~loading_waiter prints: "%*s\r" of last_drawn_count and "", or "\n"
LoadRelease(clear, last_drawn_count) ==
  IF clear THEN WidthField(last_drawn_count) \o <<CR>> ELSE <<LF>>

\* ~loading_waiter of the innermost live object: the printf
LoadDtorPrint(t) ==
  LET out == LoadRelease(Top(t).should_clear_on_release, Top(t).last_drawn_count)
  IN  /\ pc[t] = "idle"
      /\ scopes[t] # << >>
      /\ Top(t).kind = "load"
      /\ screen' = PutString(screen, out)
      /\ trace' = Record(trace, Event(t, "load_dtor", "write", attr, out, 0))
      /\ frame' = [frame EXCEPT ![t] = [NewFrame("load_dtor") EXCEPT !.steps = <<<<"write", Len(out)>>>>]]
      /\ pc' = [pc EXCEPT ![t] = "load_unlock"]
      /\ UNCHANGED <<out_handle, logger_sync, logger_padding, attr, now, scopes>>

\* ~loading_waiter: logger_sync.unlock(); the object is gone
LoadDtorUnlock(t) ==
  /\ pc[t] = "load_unlock"
  /\ logger_sync' = unlock(logger_sync)
  /\ scopes' = [scopes EXCEPT ![t] = Pop(@)]
  /\ frame' = [frame EXCEPT ![t] = NoFrame]
  /\ pc' = [pc EXCEPT ![t] = "idle"]
  /\ UNCHANGED <<out_handle, logger_padding, attr, screen, trace, now>>

(***************************************************************************)
(* lock() called by the thread that owns the Output Mutex.  std::mutex is  *)
(* not recursive and the behaviour is undefined; what implementations do   *)
(* is one of: the call never returns (no step); the call returns and the   *)
(* thread owns the mutex twice, the matching unlock leaving it the owner;  *)
(* the call throws std::system_error, which ends the operation that        *)
(* locked and is left to the caller.                                       *)
(***************************************************************************)
Relocks(t) == logger_sync = t

Relocked(t) == \E i \in DOMAIN frame[t].steps : frame[t].steps[i] = <<"relock", t>>

\* the thread owns a widget below the innermost one
OwnsOuterWidget(t) == \E i \in DOMAIN Pop(scopes[t]) : IsWidget(scopes[t][i])

\* unlock() by a thread that owns the mutex twice
unlock_relocked(owner) == owner

\* log: std::lock_guard guard( logger_sync ) returns to the owner
LogRelock(t) ==
  /\ pc[t] = "log_lock"
  /\ Relocks(t)
  /\ frame' = [frame EXCEPT ![t] = Done(t, <<"relock", t>>)]
  /\ pc' = [pc EXCEPT ![t] = "log_color"]
  /\ UNCHANGED <<out_handle, logger_sync, logger_padding, attr, screen, trace, now, scopes>>

\* log returns after a second lock: the guard's unlock leaves the owner
LogReturnRelocked(t) ==
  /\ pc[t] = "log_return"
  /\ Relocked(t)
  /\ logger_sync' = unlock_relocked(logger_sync)
  /\ frame' = [frame EXCEPT ![t] =
                 IF AfterLog(frame[t].op) = "idle" THEN NoFrame ELSE Done(t, <<"unlock", logger_sync'>>)]
  /\ pc' = [pc EXCEPT ![t] = AfterLog(frame[t].op)]
  /\ UNCHANGED <<out_handle, logger_padding, attr, screen, trace, now, scopes>>

\* spin_waiter::spin_waiter: logger_sync.lock() returns to the owner
SpinRelock(t) ==
  /\ pc[t] = "spin_lock"
  /\ Relocks(t)
  /\ frame' = [frame EXCEPT ![t] = Done(t, <<"relock", t>>)]
  /\ pc' = [pc EXCEPT ![t] = "spin_time"]
  /\ UNCHANGED <<out_handle, logger_sync, logger_padding, attr, screen, trace, now, scopes>>

\* loading_waiter::loading_waiter: logger_sync.lock() returns to the owner
LoadRelock(t) ==
  /\ pc[t] = "load_lock"
  /\ Relocks(t)
  /\ scopes' = [scopes EXCEPT ![t] =
                  Append(@, [NoScope EXCEPT !.kind = "load",
                                            !.should_clear_on_release = frame[t].clear,
                                            !.max_value = frame[t].arg])]
  /\ frame' = [frame EXCEPT ![t] = NoFrame]
  /\ pc' = [pc EXCEPT ![t] = "idle"]
  /\ UNCHANGED <<out_handle, logger_sync, logger_padding, attr, screen, trace, now>>

\* the destructor of a widget constructed inside another of the same
\* thread: its unlock leaves the owner
WidgetDtorUnlockRelocked(t) ==
  /\ pc[t] \in {"spin_unlock", "load_unlock"}
  /\ OwnsOuterWidget(t)
  /\ logger_sync' = unlock_relocked(logger_sync)
  /\ scopes' = [scopes EXCEPT ![t] = Pop(@)]
  /\ frame' = [frame EXCEPT ![t] = NoFrame]
  /\ pc' = [pc EXCEPT ![t] = "idle"]
  /\ UNCHANGED <<out_handle, logger_padding, attr, screen, trace, now>>

\* lock() throws: log, error or the constructor ends without a further step
RelockThrows(t) ==
  /\ pc[t] \in {"log_lock", "spin_lock", "load_lock"}
  /\ Relocks(t)
  /\ frame' = [frame EXCEPT ![t] = NoFrame]
  /\ pc' = [pc EXCEPT ![t] = "idle"]
  /\ UNCHANGED <<out_handle, logger_sync, logger_padding, attr, screen, trace, now, scopes>>

(***************************************************************************)
(* utils::setup_color and utils::reset_color called by the program itself. *)
(* The frame keeps the attribute the console had before (ret).             *)
(***************************************************************************)
\* utils::setup_color( clr )
SetupColorCall(t, clr) ==
  /\ pc[t] = "idle"
  /\ out_handle # INVALID_HANDLE_VALUE
  /\ attr' = setup_color(attr, clr)
  /\ frame' = [frame EXCEPT ![t] =
                 [NewFrame("setup_color") EXCEPT !.color = clr, !.ret = attr]]
  /\ pc' = [pc EXCEPT ![t] = "color_set"]
  /\ UNCHANGED <<out_handle, logger_sync, logger_padding, screen, trace, now, scopes>>

\* utils::reset_color()
ResetColorCall(t) ==
  /\ pc[t] = "color_set"
  /\ out_handle # INVALID_HANDLE_VALUE
  /\ attr' = reset_color(attr)
  /\ pc' = [pc EXCEPT ![t] = "color_reset"]
  /\ UNCHANGED <<out_handle, logger_sync, logger_padding, screen, trace, now, frame, scopes>>

\* utils::setup_color( clr ) called on its own when GetStdHandle returns
\* INVALID_HANDLE_VALUE: __debugbreak()
SetupColorTraps(t, clr) ==
  /\ pc[t] = "idle"
  /\ out_handle = INVALID_HANDLE_VALUE
  /\ frame' = [frame EXCEPT ![t] =
                 [NewFrame("setup_color") EXCEPT !.color = clr, !.ret = attr,
                                                 !.steps = <<<<"trap", 0>>>>]]
  /\ pc' = [pc EXCEPT ![t] = "trapped"]
  /\ UNCHANGED <<out_handle, logger_sync, logger_padding, attr, screen, trace, now, scopes>>

\* the caller goes on
ColorReturn(t) ==
  /\ pc[t] = "color_reset"
  /\ frame' = [frame EXCEPT ![t] = NoFrame]
  /\ pc' = [pc EXCEPT ![t] = "idle"]
  /\ UNCHANGED <<out_handle, logger_sync, logger_padding, attr, screen, trace, now, scopes>>

(***************************************************************************)
(* The clock advances by d milliseconds, up to the time limit.             *)
(***************************************************************************)
Tick(d, limit) ==
  /\ now + d <= limit
  /\ now' = now + d
  /\ UNCHANGED <<out_handle, logger_sync, logger_padding, attr, screen, trace, pc, frame, scopes>>

(***************************************************************************)
(* Spec: NThreads threads that log and call error; thread 1 also nests     *)
(* extenders and shows spinners, thread 2 also shows progress bars.  A     *)
(* thread that owns a widget calls nothing that locks the mutex again, and *)
(* a thread has at most MaxDepth live scoped objects.                      *)
(***************************************************************************)
Texts == {<<"h", "i", LF>>}
LogColors == {wcon_green}
Pads == {4}
MaxValues == {10}
CurrentValues == {5}
PadThreads == {1}
SpinThreads == {1}
LoadThreads == {2}

\* the sum of the increments of a sequence of extenders
RECURSIVE SumPads(_)
SumPads(es) == IF es = << >> THEN 0 ELSE es[1].current_pad + SumPads(Tail(es))

\* the caller keeps to one lock at a time: it calls nothing that locks the
\* Output Mutex while it owns a widget
LocksOnce(t) == ~OwnsWidget(t)

\* the caller may construct one more scoped object
Room(t, depth) == Len(scopes[t]) < depth

Next ==
  \/ \E t \in Threads :
       \/ \E c \in LogColors, x \in Texts : LocksOnce(t) /\ LogCall(t, c, x)
       \/ LogLock(t)
       \/ LogSetColor(t)
       \/ LogPrintf(t)
       \/ LogResetColor(t)
       \/ LogReturn(t)
       \/ \E x \in Texts : LocksOnce(t) /\ ErrorCall(t, x)
       \/ DebugBreak(t)
       \/ \E p \in Pads : t \in PadThreads /\ Room(t, MaxDepth) /\ ExtCtorLoad(t, p)
       \/ ExtCtorAdd(t)
       \/ ExtDtorStore(t)
       \/ ExtDtorReturn(t)
       \/ \E b \in BOOLEAN : t \in SpinThreads /\ Room(t, MaxDepth) /\ LocksOnce(t) /\ SpinCall(t, b)
       \/ SpinLock(t)
       \/ SpinCtorTime(t)
       \/ SpinUpdateCall(t)
       \/ SpinUpdateSkip(t)
       \/ SpinUpdateDraw(t)
       \/ SpinUpdateStamp(t)
       \/ SpinDtorPrint(t)
       \/ SpinDtorUnlock(t)
       \/ \E m \in MaxValues, b \in BOOLEAN :
            t \in LoadThreads /\ Room(t, MaxDepth) /\ LocksOnce(t)
            /\ LoadCall(t, m, b)
       \/ LoadLock(t)
       \/ \E c \in CurrentValues : LoadUpdate(t, c)
       \/ LoadDtorPrint(t)
       \/ LoadDtorUnlock(t)
  \/ Tick(update_rate_ms, MaxTime * update_rate_ms)

Spec == Init /\ [][Next]_vars

(***************************************************************************)
(* SpecFair: the threads log, and thread 1 shows spinners, with the        *)
(* scheduler's guarantee that a thread inside a call of the library takes  *)
(* its next step when that step stays possible.  What a caller calls next, *)
(* and when, is not forced; std::mutex promises no order among the threads *)
(* waiting for it.                                                         *)
(***************************************************************************)
NextFair ==
  \/ \E t \in Threads :
       \/ \E c \in LogColors, x \in Texts : LocksOnce(t) /\ LogCall(t, c, x)
       \/ LogLock(t)
       \/ LogSetColor(t)
       \/ LogPrintf(t)
       \/ LogResetColor(t)
       \/ LogReturn(t)
       \/ \E b \in BOOLEAN : t \in SpinThreads /\ Room(t, MaxDepth) /\ LocksOnce(t) /\ SpinCall(t, b)
       \/ SpinLock(t)
       \/ SpinCtorTime(t)
       \/ SpinUpdateCall(t)
       \/ SpinUpdateSkip(t)
       \/ SpinUpdateDraw(t)
       \/ SpinUpdateStamp(t)
       \/ SpinDtorPrint(t)
       \/ SpinDtorUnlock(t)
  \/ Tick(update_rate_ms, MaxTime * update_rate_ms)

(***************************************************************************)
(* SpecPad: one thread nests extenders, up to PadDepth deep, in LIFO       *)
(* order.  The outermost increment is any std::uint8_t, so that the inner  *)
(* ones start from every Padding State; the inner increments are drawn     *)
(* from PadIncrements.                                                     *)
(***************************************************************************)
MainThread == CHOOSE t \in Threads : \A u \in Threads : t <= u

PadIncrements == {0, 1, 100, 128, 200, 255}

IncrementsAt(depth) == IF depth = 0 THEN 0..(Uint8 - 1) ELSE PadIncrements

NextPad ==
  \/ \E p \in IncrementsAt(Len(scopes[MainThread])) :
       Room(MainThread, PadDepth) /\ ExtCtorLoad(MainThread, p)
  \/ ExtCtorAdd(MainThread)
  \/ ExtDtorStore(MainThread)
  \/ ExtDtorReturn(MainThread)

SpecPad == Init /\ [][NextPad]_vars

(***************************************************************************)
(* SpecSpin: one thread shows spinners on a screen of Rows lines, calls    *)
(* update at any time of a clock that advances by SpinTick milliseconds,   *)
(* and constructs and destroys an extender of SpinPad before, while or     *)
(* after a spinner is alive.                                               *)
(***************************************************************************)
SpinPad == 4

InitSpin ==
  /\ out_handle = CONSOLE_HANDLE
  /\ logger_sync = 0
  /\ logger_padding = 0
  /\ attr = wcon_gray
  /\ screen = BlankScreen(Rows)
  /\ trace = << >>
  /\ now = 0
  /\ pc = [t \in Threads |-> "idle"]
  /\ frame = [t \in Threads |-> NoFrame]
  /\ scopes = [t \in Threads |-> << >>]

NextSpin ==
  \/ \E b \in BOOLEAN : Room(MainThread, SpinDepth) /\ LocksOnce(MainThread)
                          /\ SpinCall(MainThread, b)
  \/ SpinLock(MainThread)
  \/ SpinCtorTime(MainThread)
  \/ SpinUpdateCall(MainThread)
  \/ SpinUpdateSkip(MainThread)
  \/ SpinUpdateDraw(MainThread)
  \/ SpinUpdateStamp(MainThread)
  \/ SpinDtorPrint(MainThread)
  \/ SpinDtorUnlock(MainThread)
  \/ Room(MainThread, SpinDepth) /\ ExtCtorLoad(MainThread, SpinPad)
  \/ ExtCtorAdd(MainThread)
  \/ ExtDtorStore(MainThread)
  \/ ExtDtorReturn(MainThread)
  \/ Tick(SpinTick, SpinTicks * SpinTick)

SpecSpin == InitSpin /\ [][NextSpin]_vars

(***************************************************************************)
(* SpecColor: a console that starts with any attribute of the closed set   *)
(* (the attribute is the console's, not the program's: the program         *)
(* inherits it), and one thread that calls setup_color and then            *)
(* reset_color.                                                            *)
(***************************************************************************)
InitColor ==
  /\ out_handle = CONSOLE_HANDLE
  /\ logger_sync = 0
  /\ logger_padding = 0
  /\ attr \in win_console_colors
  /\ screen = BlankScreen(1)
  /\ trace = << >>
  /\ now = 0
  /\ pc = [t \in Threads |-> "idle"]
  /\ frame = [t \in Threads |-> NoFrame]
  /\ scopes = [t \in Threads |-> << >>]

NextColor ==
  \/ \E clr \in win_console_colors : SetupColorCall(MainThread, clr)
  \/ ResetColorCall(MainThread)
  \/ ColorReturn(MainThread)

SpecColor == InitColor /\ [][NextColor]_vars

(***************************************************************************)
(* SpecHandle: the process starts with either result of GetStdHandle, and  *)
(* the console with any attribute.  The threads log and call error; the    *)
(* main thread also calls setup_color and reset_color on its own.          *)
(***************************************************************************)
InitHandle ==
  /\ out_handle \in StdHandles
  /\ logger_sync = 0
  /\ logger_padding = 0
  /\ attr \in {wcon_gray, wcon_cyan}
  /\ screen = BlankScreen(1)
  /\ trace = << >>
  /\ now = 0
  /\ pc = [t \in Threads |-> "idle"]
  /\ frame = [t \in Threads |-> NoFrame]
  /\ scopes = [t \in Threads |-> << >>]

NextHandle ==
  \E t \in Threads :
    \/ \E c \in LogColors, x \in Texts : LogCall(t, c, x)
    \/ LogLock(t)
    \/ LogSetColor(t)
    \/ LogSetColorTraps(t)
    \/ LogPrintf(t)
    \/ LogResetColor(t)
    \/ LogReturn(t)
    \/ \E x \in Texts : ErrorCall(t, x)
    \/ DebugBreak(t)
    \/ \E clr \in LogColors : t = MainThread /\ SetupColorCall(t, clr)
    \/ \E clr \in LogColors : t = MainThread /\ SetupColorTraps(t, clr)
    \/ ResetColorCall(t)
    \/ ColorReturn(t)

SpecHandle == InitHandle /\ [][NextHandle]_vars

(***************************************************************************)
(* SpecRace: the threads construct and destroy extenders of the increments *)
(* Pads with no synchronization between them, each thread one at a time;   *)
(* none is constructed once the Padding State has passed MaxRacePadding.   *)
(***************************************************************************)
NextRace ==
  \E t \in Threads :
    \/ \E p \in Pads :
         /\ Room(t, MaxDepth)
         /\ logger_padding + p <= MaxRacePadding
         /\ ExtCtorLoad(t, p)
    \/ ExtCtorAdd(t)
    \/ ExtDtorStore(t)
    \/ ExtDtorReturn(t)

SpecRace == Init /\ [][NextRace]_vars

(***************************************************************************)
(* SpecReentry: the threads log, call error and show widgets, and a thread *)
(* that owns a widget also logs, calls error and constructs a second       *)
(* widget, which locks the Output Mutex it owns.                           *)
(***************************************************************************)
ReentryClear == {FALSE}

NextReentry ==
  \E t \in Threads :
    \/ \E c \in LogColors, x \in Texts : LogCall(t, c, x)
    \/ LogLock(t)
    \/ LogRelock(t)
    \/ LogSetColor(t)
    \/ LogPrintf(t)
    \/ LogResetColor(t)
    \/ ~Relocked(t) /\ LogReturn(t)
    \/ LogReturnRelocked(t)
    \/ \E x \in Texts : ErrorCall(t, x)
    \/ DebugBreak(t)
    \/ \E b \in ReentryClear : Room(t, ReentryDepth) /\ SpinCall(t, b)
    \/ SpinLock(t)
    \/ SpinRelock(t)
    \/ SpinCtorTime(t)
    \/ SpinDtorPrint(t)
    \/ ~OwnsOuterWidget(t) /\ SpinDtorUnlock(t)
    \/ \E m \in MaxValues, b \in ReentryClear :
         Room(t, ReentryDepth) /\ LoadCall(t, m, b)
    \/ LoadLock(t)
    \/ LoadRelock(t)
    \/ \E c \in CurrentValues : LoadUpdate(t, c)
    \/ LoadDtorPrint(t)
    \/ ~OwnsOuterWidget(t) /\ LoadDtorUnlock(t)
    \/ WidgetDtorUnlockRelocked(t)
    \/ RelockThrows(t)

SpecReentry == Init /\ [][NextReentry]_vars

(***************************************************************************)
(* SpecLoad: one thread shows progress bars on a screen of Rows lines,     *)
(* with values below 0, inside the range and above max_value.  It starts   *)
(* either outside every extender or inside one extender of LoadPad, the    *)
(* state ExtCtorLoad( LoadPad ) and ExtCtorAdd lead to from Init.          *)
(***************************************************************************)
LoadMaxValues == {10, 200}
LoadValues == {-5, 5, 106, 250}
LoadPad == 4

\* the live objects of the thread when it starts to show progress bars
LoadScopes ==
  { << >>,
    <<[NoScope EXCEPT !.kind = "pad", !.restore_pad = 0, !.current_pad = LoadPad,
                      !.entry_padding = 0]>> }

InitLoad ==
  /\ out_handle = CONSOLE_HANDLE
  /\ logger_sync = 0
  /\ attr = wcon_gray
  /\ screen = BlankScreen(Rows)
  /\ trace = << >>
  /\ now = 0
  /\ pc = [t \in Threads |-> "idle"]
  /\ frame = [t \in Threads |-> NoFrame]
  /\ \E es \in LoadScopes :
       /\ scopes = [t \in Threads |-> IF t = MainThread THEN es ELSE << >>]
       /\ logger_padding = fetch_add(0, SumPads(es))

\* the cursor is on a line nothing was written to
OnBlankLine == screen.lines[screen.cy] = EmptyLine

NextLoad ==
  \/ \E m \in LoadMaxValues, b \in BOOLEAN :
       OnBlankLine /\ Room(MainThread, LoadDepth) /\ LocksOnce(MainThread)
       /\ LoadCall(MainThread, m, b)
  \/ LoadLock(MainThread)
  \/ \E c \in LoadValues : LoadUpdate(MainThread, c)
  \/ LoadDtorPrint(MainThread)
  \/ LoadDtorUnlock(MainThread)

SpecLoad == InitLoad /\ [][NextLoad]_vars

\* the steps of thread t inside a call of the library
Internal(t) ==
  \/ LogLock(t) \/ LogSetColor(t) \/ LogPrintf(t) \/ LogResetColor(t) \/ LogReturn(t)
  \/ SpinLock(t) \/ SpinCtorTime(t) \/ SpinUpdateSkip(t) \/ SpinUpdateDraw(t)
  \/ SpinUpdateStamp(t) \/ SpinDtorUnlock(t)

SpecFair == Init /\ [][NextFair]_vars /\ \A t \in Threads : WF_vars(Internal(t))

(***************************************************************************)
(* Properties.                                                             *)
(***************************************************************************)
Last(seq) == seq[Len(seq)]

IsLogEvent(e) == e.op \in {"log", "error"}

\* the thread is inside log, between its lock and its unlock
InLog(t) == pc[t] \in {"log_color", "log_printf", "log_reset", "log_return"}

\* the thread is between the lock of a widget's constructor and the unlock
\* of its destructor
WidgetAlive(t) == OwnsWidget(t) \/ pc[t] = "spin_time"

\* the thread is in an output operation that holds the Output Mutex
Holding(t) == InLog(t) \/ WidgetAlive(t)

\* C1: the terminal events of one log call (set color, write, reset color)
\* are contiguous in the event trace: a write of a log call has the call's
\* set-color event right before it and its reset-color event right after
\* it, a color event lies next to the write of its own call, and while a
\* call is between its set-color and its reset-color step the last event of
\* the trace is its own.
C1_LogEventsContiguous ==
  /\ \A i \in 1..Len(trace) :
       LET e == trace[i]
       IN  IsLogEvent(e) =>
             /\ (e.ev = "write" /\ i > 1) =>
                  /\ trace[i - 1].thr = e.thr
                  /\ IsLogEvent(trace[i - 1])
                  /\ trace[i - 1].ev = "color"
             /\ (e.ev = "write" /\ i < Len(trace)) =>
                  /\ trace[i + 1].thr = e.thr
                  /\ IsLogEvent(trace[i + 1])
                  /\ trace[i + 1].ev = "color"
                  /\ trace[i + 1].attr = wcon_gray
             /\ (e.ev = "color" /\ i > 1 /\ i < Len(trace)) =>
                  \/ trace[i - 1].thr = e.thr /\ trace[i - 1].ev = "write"
                       /\ IsLogEvent(trace[i - 1])
                  \/ trace[i + 1].thr = e.thr /\ trace[i + 1].ev = "write"
                       /\ IsLogEvent(trace[i + 1])
  /\ \A t \in Threads :
       /\ pc[t] = "log_printf" =>
            Last(trace).thr = t /\ Last(trace).ev = "color" /\ IsLogEvent(Last(trace))
       /\ pc[t] = "log_reset" =>
            Last(trace).thr = t /\ Last(trace).ev = "write" /\ IsLogEvent(Last(trace))

\* a log call has written between its color events while another thread
\* waits in log for the mutex
C1_Witness ==
  \E t, u \in Threads :
    /\ t # u
    /\ pc[u] = "log_lock"
    /\ pc[t] = "log_return"
    /\ Len(trace) = 3
    /\ \A i \in 1..3 : trace[i].thr = t /\ IsLogEvent(trace[i])

\* C2: at most one output operation holds the Output Mutex, the mutex is
\* owned by the thread of that operation, and every step that changes the
\* terminal is made by the thread that holds the mutex; so while a widget is
\* alive no other thread is inside log or owns a widget or writes.
C2_MutexExclusive ==
  /\ [](\A t, u \in Threads : (Holding(t) /\ Holding(u)) => t = u)
  /\ [](\A t \in Threads : Holding(t) => logger_sync = t)
  /\ [][(screen' # screen \/ attr' # attr) =>
          /\ logger_sync \in Threads
          /\ Holding(logger_sync)
          /\ Last(trace').thr = logger_sync]_vars

\* a widget is alive and has drawn while another thread waits for the mutex
C2_Witness ==
  \E t, u \in Threads :
    /\ t # u
    /\ OwnsWidget(t)
    /\ pc[u] \in {"log_lock", "spin_lock", "load_lock"}
    /\ trace # << >>
    /\ Last(trace).thr = t
    /\ Last(trace).op \in {"spin_update", "load_update"}

\* C5: log writes as many spaces as the Padding State it loads while it
\* holds the mutex, then the formatted text, and returns the sum of the two
\* lengths.
C5_LogWritesPaddingThenText ==
  \A t \in Threads :
    pc[t] \in {"log_reset", "log_return"} =>
      LET p == frame[t].pad
          n == Len(frame[t].text)
          written == frame[t].out
      IN  /\ Len(written) = p + n
          /\ \A i \in 1..p : written[i] = SP
          /\ \A i \in 1..n : written[p + i] = frame[t].text[i]
          /\ frame[t].ret = p + n
          /\ logger_sync = t
          /\ pc[t] = "log_reset" => Last(trace).out = written

\* padding 4 and the text "hi\n": "    hi\n" is written and 7 is returned
C5_Witness ==
  \E t \in Threads :
    /\ pc[t] = "log_return"
    /\ frame[t].pad = 4
    /\ frame[t].text = <<"h", "i", LF>>
    /\ frame[t].out = <<SP, SP, SP, SP, "h", "i", LF>>
    /\ frame[t].ret = 7

\* C7: when error reaches its trap it has done a complete red log (lock,
\* color red, the padded message written, color reset to gray, unlock) and
\* does not own the mutex; and error never returns to its caller without
\* the trap.
C7_ErrorLogsThenTraps ==
  /\ [](\A t \in Threads :
         pc[t] \in {"err_break", "trapped"} =>
           LET st == frame[t].steps
           IN  /\ Len(st) >= 5
               /\ st[1] = <<"lock", t>>
               /\ st[2] = <<"color", wcon_red>>
               /\ st[3] = <<"write", frame[t].pad + Len(frame[t].text)>>
               /\ st[4] = <<"color", wcon_gray>>
               /\ st[5] = <<"unlock", 0>>
               /\ (pc[t] = "trapped") = (Len(st) = 6)
               /\ logger_sync # t)
  /\ [][\A t \in Threads :
          frame[t].op = "error" =>
            /\ pc'[t] # "idle"
            /\ pc'[t] = "trapped" => pc[t] \in {"err_break", "trapped"}]_vars

\* a thread has trapped in error
C7_Witness ==
  \E t \in Threads : pc[t] = "trapped" /\ frame[t].op = "error"

OwnsSpin(t) == Objects(t, "spin") # {}

\* the last terminal event is the print of a spin_waiter's destructor and
\* the mutex is free: a Spin Waiter has just been destroyed
SpinnerJustDestroyed ==
  /\ trace # << >>
  /\ Last(trace).op = "spin_dtor"
  /\ logger_sync = 0

\* thread t waits in log for the mutex that the destroyed Spin Waiter of
\* another thread held
WaitsAfterSpinner(t) ==
  /\ pc[t] = "log_lock"
  /\ frame[t].op = "log"
  /\ SpinnerJustDestroyed
  /\ Last(trace).thr # t

\* the destructor's unlock step releases the mutex, and a thread that owns a
\* Spin Waiter releases the mutex in no other step
SpinReleasesOnce ==
  [][\A t \in Threads :
       /\ (pc[t] = "spin_unlock" /\ pc'[t] # "spin_unlock") =>
            (logger_sync = t /\ logger_sync' = 0)
       /\ (OwnsSpin(t) /\ logger_sync = t /\ logger_sync' # t) =>
            pc[t] = "spin_unlock"]_vars

\* when the destructor is about to unlock, its "\r" or "\n" is the last
\* thing written and the mutex is still owned
SpinReleasesAfterWrite ==
  [](\A t \in Threads :
       pc[t] = "spin_unlock" =>
         /\ logger_sync = t
         /\ Last(trace).thr = t
         /\ Last(trace).op = "spin_dtor"
         /\ Last(trace).out \in {<<CR>>, <<LF>>})

\* C4 as stated: with the scheduler's weak fairness, a log call that waits
\* for the mutex when the Spin Waiter is destroyed eventually returns; the
\* destructor releases the mutex once, after its final write.
C4_BlockedLogCompletes ==
  /\ \A t \in Threads : WaitsAfterSpinner(t) ~> (pc[t] = "idle")
  /\ SpinReleasesOnce
  /\ SpinReleasesAfterWrite

\* C4, amended: with the scheduler's weak fairness, a log call that waits
\* for the mutex when the Spin Waiter is destroyed eventually returns unless
\* another thread acquires the mutex first; the destructor releases the
\* mutex once, after its final write.
C4_BlockedLogCompletesUnlessOvertaken ==
  /\ \A t \in Threads :
       WaitsAfterSpinner(t) ~> (pc[t] = "idle" \/ logger_sync \in Threads \ {t})
  /\ SpinReleasesOnce
  /\ SpinReleasesAfterWrite

\* a log call waits for the mutex that a destroyed Spin Waiter has released
C4_Witness == \E t \in Threads : WaitsAfterSpinner(t)

\* the live extenders of thread t, outermost first
Extenders(t) == SelectSeq(scopes[t], LAMBDA o : o.kind = "pad")

\* C3: when the destructor of the innermost extender has stored, the
\* Padding State is the value it had when that extender's constructor was
\* entered; and that value is what the constructor of the enclosing extender
\* had made of the value it was entered with, so that the destructor of the
\* enclosing one, next in LIFO order, brings back the value before both.
C3_NestedExtendersRestore ==
  LET es == scopes[MainThread]
      n == Len(es)
  IN  /\ pc[MainThread] = "ext_ret" => logger_padding = es[n].entry_padding
      /\ \A i \in 1..(n - 1) :
           es[i + 1].entry_padding = (es[i].entry_padding + es[i].current_pad) % Uint8
      /\ (pc[MainThread] = "idle" /\ n = 0) => logger_padding = 0

\* the inner of two nested extenders has been destroyed after the Padding
\* State had wrapped around: v + p1 + p2 > 255
C3_Witness ==
  LET es == scopes[MainThread]
  IN  /\ pc[MainThread] = "ext_ret"
      /\ Len(es) = 3
      /\ es[1].current_pad + es[2].current_pad + es[3].current_pad > Uint8 - 1
      /\ es[1].current_pad + es[2].current_pad < Uint8
      /\ logger_padding = es[1].current_pad + es[2].current_pad

\* C6 as stated: between the operations of the one thread, the Padding
\* State is the sum of the increments of the live extenders.
C6_PaddingIsSum ==
  pc[MainThread] = "idle" =>
    logger_padding = SumPads(Extenders(MainThread))

\* C6, amended: between the operations of the one thread, the Padding State
\* is the sum of the increments of the live extenders modulo 256.
C6_PaddingIsSumMod256 ==
  pc[MainThread] = "idle" =>
    logger_padding = SumPads(Extenders(MainThread)) % Uint8

\* three extenders are live and their increments sum to more than 255
C6_Witness ==
  /\ pc[MainThread] = "idle"
  /\ Len(Extenders(MainThread)) = 3
  /\ SumPads(Extenders(MainThread)) > Uint8 - 1

(***************************************************************************)
(* The progress bar as the terminal shows it.                              *)
(***************************************************************************)
\* the position of the first c in str
IndexOf(str, c) ==
  CHOOSE i \in 1..Len(str) : str[i] = c /\ \A j \in 1..(i - 1) : str[j] # c

\* what update wrote between its carriage return and the '['
PercentText(out) == SubSeq(out, 2, IndexOf(out, "[") - 1)

\* what update wrote between '[' and the end of its output, and that end
BarCells(out) == SubSeq(out, IndexOf(out, "[") + 1, Len(out) - 1)

\* a bar of ten cells, the first f of them filled
Bar(f) == Repeat(GlyphFE, f) \o Repeat(SP, length - f)

\* current_value clamped to [0, max_value]
Clamped(current_value, max_value) ==
  IF current_value < 0 THEN 0 ELSE Min(current_value, max_value)

\* the percentages and the counts of filled cells an output displays
PercentsShown(out, padding) ==
  {p \in 0..100 : PercentText(out) = PadField(padding) \o DecString(p) \o <<"%">>}

FilledShown(out) == {f \in 0..length : BarCells(out) = Bar(f) /\ Last(out) = "]"}

\* the thread's live progress bar has drawn, and its update was the last
\* thing written to the terminal
JustUpdated(t) ==
  /\ pc[t] = "idle"
  /\ trace # << >>
  /\ Last(trace).op = "load_update"
  /\ \E i \in Objects(t, "load") : scopes[t][i].last_drawn_count > 0

\* the live progress bar of a thread that has one
Bar_max_value(t) == scopes[t][CHOOSE i \in Objects(t, "load") : TRUE].max_value

\* C8: whatever current_value is, below 0 and above max_value included, an
\* update renders exactly ten cells between '[' and ']', the first
\* floor(10 * c / max_value) of them filled and the rest blank, and the
\* percentage floor(100 * c / max_value), c being current_value clamped to
\* [0, max_value].
C8_BarShowsFloorOfClamped ==
  \A t \in Threads :
    JustUpdated(t) =>
      LET e == Last(trace)
          c == Clamped(e.arg, Bar_max_value(t))
      IN  /\ FilledShown(e.out) = {(length * c) \div Bar_max_value(t)}
          /\ PercentsShown(e.out, logger_padding) = {(100 * c) \div Bar_max_value(t)}

\* C9: over two updates of one progress bar in a row, the second with a
\* current_value not below the first's, the displayed percentage and the
\* number of filled cells do not decrease; every update displays a
\* percentage in 0..100 and 0..10 filled cells; and an update with
\* current_value > max_value displays 100% and ten filled cells.
C9_DisplayMonotoneAndClamped ==
  \A t \in Threads :
    JustUpdated(t) =>
      LET n == Len(trace)
          e == trace[n]
          ps == PercentsShown(e.out, logger_padding)
          fs == FilledShown(e.out)
      IN  /\ ps # {} /\ fs # {}
          /\ e.arg > Bar_max_value(t) => ps = {100} /\ fs = {length}
          /\ (n > 1 /\ trace[n - 1].op = "load_update" /\ trace[n - 1].arg <= e.arg) =>
               /\ \A p1 \in PercentsShown(trace[n - 1].out, logger_padding), p2 \in ps :
                    p1 <= p2
               /\ \A f1 \in FilledShown(trace[n - 1].out), f2 \in fs : f1 <= f2

\* the destructor of a progress bar that has drawn has made its final write
\* and is about to unlock
LoadReleased(t) ==
  /\ pc[t] = "load_unlock"
  /\ Top(t).last_drawn_count > 0

\* the columns the last update drew: its output without the carriage return
DrawnColumns(t) == 0..(Top(t).last_drawn_count - 2)

\* the cursor is at column 0 of the line the bar is on, and every cell the
\* last update drew is blank
BarCleared(t) ==
  /\ screen.cx = 0
  /\ \A x \in DrawnColumns(t) : CellAt(screen.lines[screen.cy], x) = SP

\* the cursor is at column 0 of the line below the bar, and every cell the
\* last update drew is as that update wrote it
BarKept(t) ==
  /\ screen.cx = 0
  /\ screen.cy > 1
  /\ Len(trace) > 1
  /\ \A x \in DrawnColumns(t) :
       CellAt(screen.lines[screen.cy - 1], x) = trace[Len(trace) - 1].out[x + 2]

\* the Output Mutex is still held after the final write, and released next
ReleasedAfterFinalWrite(t) ==
  /\ logger_sync = t
  /\ frame[t].steps = <<<<"write", Len(Last(trace).out)>>>>

\* C10: when a progress bar that clears on release is destroyed after an
\* update, every cell the last update drew is blank and the cursor is at
\* column 0 of the same line; when it does not clear, the bar is left as
\* drawn and the cursor is at the start of the next line; in both cases the
\* Output Mutex is released after the final write.
C10_ReleaseClearsOrKeepsBar ==
  \A t \in Threads :
    LoadReleased(t) =>
      /\ IF Top(t).should_clear_on_release THEN BarCleared(t) ELSE BarKept(t)
      /\ ReleasedAfterFinalWrite(t)

(***************************************************************************)
(* The spinner.                                                            *)
(***************************************************************************)
\* the live spinners: a thread and the index of the object in its scopes
Spinners == {<<t, i>> \in Threads \X (1..SpinDepth) : i \in Objects(t, "spin")}

\* redraws of one spinner that follow each other are update_rate_ms apart or
\* more, and the first is that long after the construction
RedrawsApart(w) ==
  /\ \A k \in 1..(Len(w.redraws) - 1) :
       w.redraws[k + 1].at - w.redraws[k].at >= update_rate_ms
  /\ (w.redraws # << >> /\ Len(w.redraws) < MaxRedraws) =>
       w.redraws[1].at - w.created >= update_rate_ms

\* thread t leaves an update that found less than update_rate_ms elapsed:
\* nothing is written, the spinner is as it was, update has returned
EarlyUpdateIsSilent(t) ==
  (pc[t] = "spin_delta" /\ frame[t].ret < update_rate_ms /\ pc'[t] # pc[t]) =>
    /\ pc'[t] = "idle"
    /\ UNCHANGED <<screen, trace>>
    /\ scopes'[t] = scopes[t]

\* C11: two redraws of a spinner in a row are never less than 100 ms apart,
\* the first redraw is never less than 100 ms after the construction, and an
\* update called less than 100 ms after the last recorded time writes nothing
\* and leaves the sequence index and the last-update time unchanged.
C11_RedrawsRateLimited ==
  /\ [](\A s \in Spinners : RedrawsApart(scopes[s[1]][s[2]]))
  /\ [][\A t \in Threads : EarlyUpdateIsSilent(t)]_vars

\* a spinner has redrawn twice, the clock has advanced by less than 100 ms
\* since, and update has been called again
C11_Witness ==
  \E s \in Spinners :
    /\ Len(scopes[s[1]][s[2]].redraws) = 2
    /\ pc[s[1]] = "spin_delta"
    /\ frame[s[1]].ret > 0
    /\ frame[s[1]].ret < update_rate_ms

(***************************************************************************)
(* setup_color followed by reset_color.                                    *)
(***************************************************************************)
\* thread t has called setup_color and then reset_color
ColorRoundTrip(t) == pc[t] = "color_reset"

\* C12 as stated: for every color and every attribute the console had
\* before, setup_color( color ) followed by reset_color() leaves the
\* attribute as it was before.
C12_ResetRestoresAttribute ==
  \A t \in Threads : ColorRoundTrip(t) => attr = frame[t].ret

\* C12, amended: for every color and every attribute the console had before,
\* setup_color( color ) followed by reset_color() leaves the attribute at
\* default gray; that is the attribute it had before only when that was gray.
C12_ResetLeavesGray ==
  \A t \in Threads :
    ColorRoundTrip(t) =>
      /\ attr = wcon_gray
      /\ attr = frame[t].ret <=> frame[t].ret = wcon_gray

\* a round trip of a color other than gray that began with an attribute
\* other than gray and other than the color
C12_Witness ==
  \E t \in Threads :
    /\ ColorRoundTrip(t)
    /\ frame[t].ret # wcon_gray
    /\ frame[t].color # wcon_gray
    /\ frame[t].color # frame[t].ret

(***************************************************************************)
(* Extenders of several threads.                                           *)
(***************************************************************************)
\* no extender is alive and no thread is inside a constructor or destructor
NoExtenderLeft ==
  \A t \in Threads : pc[t] = "idle" /\ Extenders(t) = << >>

\* the destructor of thread t stores
DestructorStores(t) == pc[t] = "idle" /\ pc'[t] = "ext_ret"

\* C13: the destructor of an extender stores the value its constructor
\* read, whatever the other thread has added or stored since; so the
\* increment of an extender of the other thread that was alive at that read
\* comes back with the store, also after that other extender is gone.  (That
\* an interleaving ends, with no extender left alive, in a Padding State
\* other than the initial one is the state C13_Witness describes.)
C13_DestructorStoresStaleSnapshot ==
  [][\A t \in Threads :
       DestructorStores(t) => logger_padding' = Top(t).entry_padding]_vars

\* both threads are done, no extender is left alive, and the Padding State
\* is not the 0 it was before either extender was constructed
C13_Witness == NoExtenderLeft /\ logger_padding # 0

(***************************************************************************)
(* The animation.                                                          *)
(***************************************************************************)
\* the index (from 0) of a glyph in the animation
FrameOf(glyph) == (CHOOSE i \in DOMAIN animation : animation[i] = glyph) - 1

\* the frame after frame f of the 4-frame animation
FrameAfter(f) == (f + 1) % 4

\* the glyphs a spinner has drawn follow the animation cyclically, the last
\* one is the glyph at its sequence index, and a glyph comes back after four
\* redraws
FollowsAnimation(w) ==
  /\ w.sequence \in 0..3
  /\ \A k \in 1..(Len(w.redraws) - 1) :
       FrameOf(w.redraws[k + 1].glyph) = FrameAfter(FrameOf(w.redraws[k].glyph))
  /\ \A k \in 1..(Len(w.redraws) - 4) : w.redraws[k + 4].glyph = w.redraws[k].glyph
  /\ w.redraws # << >> => FrameOf(Last(w.redraws).glyph) = w.sequence

\* thread t makes an update that is not rate-limited
EffectiveUpdate(t) == pc[t] = "spin_delta" /\ pc'[t] = "spin_stamp"

\* the spinner's index advances by one modulo 4, and what is written is the
\* padding and the glyph at the new index
AdvancesAndDraws(t) ==
  LET i == frame[t].arg
      e == Last(trace')
  IN  /\ scopes'[t][i].sequence = FrameAfter(scopes[t][i].sequence)
      /\ e.op = "spin_update"
      /\ e.out = PadField(logger_padding)
                   \o <<animation[scopes'[t][i].sequence + 1], CR>>

\* C14: the sequence index of a spinner is always in 0..3; every update
\* that is not rate-limited advances it by exactly one modulo 4 and draws the
\* glyph at the new index; the glyphs of successive effective updates follow
\* the 4-frame animation cyclically, and the glyph of effective update k + 4
\* is the glyph of effective update k.
C14_SequenceCyclesThroughAnimation ==
  /\ [](\A s \in Spinners : FollowsAnimation(scopes[s[1]][s[2]]))
  /\ [][\A t \in Threads : EffectiveUpdate(t) => AdvancesAndDraws(t)]_vars

\* a spinner has made five effective updates
C14_Witness == \E s \in Spinners : Len(scopes[s[1]][s[2]].redraws) = 5

(***************************************************************************)
(* The spinner as the terminal shows it.                                   *)
(***************************************************************************)
\* thread t has just printed a frame of its spinner
JustRedrawn(t) == pc[t] = "spin_stamp"

\* the glyph of the frame thread t has just printed
CurrentGlyph(t) == animation[scopes[t][frame[t].arg].sequence + 1]

\* the line the cursor is on
CursorLine == screen.lines[screen.cy]

\* the cursor line shows the padding as blanks and then the glyph
ShowsPaddingAndGlyph(t) ==
  \A x \in 0..logger_padding :
    CellAt(CursorLine, x) = IF x = logger_padding THEN CurrentGlyph(t) ELSE SP

\* the cursor line shows nothing to the right of the glyph
NothingAfterGlyph ==
  \A x \in (logger_padding + 1)..Len(CursorLine) : CellAt(CursorLine, x) = SP

\* C15: after every effective update of a spinner the cursor is at column 0,
\* and its line shows the current padding as blanks followed by exactly one
\* spinner glyph, no glyph of an earlier frame left visible, whatever
\* extender was constructed or destroyed between two updates.
C15_LineShowsOneGlyph ==
  \A t \in Threads :
    JustRedrawn(t) =>
      /\ screen.cx = 0
      /\ ShowsPaddingAndGlyph(t)
      /\ NothingAfterGlyph

(***************************************************************************)
(* Calls made while a widget is alive.                                     *)
(***************************************************************************)
\* a log call, the log call of error, or the constructor of a widget of
\* thread u returns
CallCompletes(u) ==
  \/ pc[u] = "log_return" /\ pc'[u] \in {"idle", "err_break"}
  \/ pc[u] \in {"spin_time", "load_lock"} /\ Len(scopes'[u]) > Len(scopes[u])

\* thread t is inside log, error or the constructor of a second widget
\* while it owns a widget
Reentered(t) ==
  /\ OwnsWidget(t)
  /\ pc[t] \in {"log_lock", "log_color", "log_printf", "log_reset", "log_return",
                "err_break", "spin_lock", "spin_time", "load_lock"}

\* C16: while a thread owns a widget, no log call, error call or
\* construction of a second widget completes, whether another thread or the
\* owner makes it; and once the owner is inside such a call, nothing is
\* written to the terminal any more.
C16_NoCallCompletesWhileWidgetAlive ==
  /\ [][\A u \in Threads :
          CallCompletes(u) => ~(\E t \in Threads : OwnsWidget(t))]_vars
  /\ [][(\E t \in Threads : Reentered(t)) => UNCHANGED trace]_vars

(***************************************************************************)
(* The attribute characters are written with.                              *)
(***************************************************************************)
\* thread t makes the printf of log
LogWrites(t) == pc[t] = "log_printf" /\ pc'[t] = "log_reset"

\* a write of a spin_waiter or loading_waiter
IsWidgetWrite(e) == e.ev = "write" /\ ~IsLogEvent(e)

\* C17: with the attribute gray at the start, a valid output handle and
\* colors changed only by log and error: whenever the Output Mutex is free
\* the attribute is default gray; every log< color > call writes its
\* characters while the attribute is its color (red for error); every widget
\* writes its characters while the attribute is default gray.
C17_AttributeFollowsLog ==
  /\ [](logger_sync = 0 => attr = wcon_gray)
  /\ [](\A i \in DOMAIN trace : IsWidgetWrite(trace[i]) => trace[i].attr = wcon_gray)
  /\ [][\A t \in Threads :
          LogWrites(t) =>
            /\ attr = frame[t].color
            /\ Last(trace').attr = frame[t].color
            /\ frame[t].op = "error" => frame[t].color = wcon_red]_vars

\* a widget has written, and after it a log call has written in a color
\* other than gray
C17_Witness ==
  \E i, j \in DOMAIN trace :
    /\ i < j
    /\ IsWidgetWrite(trace[i])
    /\ trace[j].op = "log" /\ trace[j].ev = "write"
    /\ trace[j].attr # wcon_gray

(***************************************************************************)
(* What changes the Padding State.                                         *)
(***************************************************************************)
\* thread t makes a step of the constructor or destructor of an extender
ExtenderStep(t) ==
  \/ pc[t] = "idle" /\ pc'[t] \in {"ext_add", "ext_ret"}
  \/ pc[t] \in {"ext_add", "ext_ret"} /\ pc'[t] = "idle"

\* thread t is inside the constructor or destructor of an extender, and its
\* next step can be taken
ExtenderNeverWaits(t) ==
  /\ pc[t] = "ext_add" => ENABLED ExtCtorAdd(t)
  /\ pc[t] = "ext_ret" => ENABLED ExtDtorReturn(t)

\* C18: only the constructor and the destructor of an extender change the
\* Padding State: log, error, setup_color and reset_color, and the
\* constructor, update and destructor of the widgets leave it as it is; the
\* constructor and destructor of an extender leave the Output Mutex as it is
\* and never wait for it, so they complete also while a widget is alive.
C18_OnlyExtendersChangePadding ==
  /\ [][logger_padding' # logger_padding => \E t \in Threads : ExtenderStep(t)]_vars
  /\ [][(\E t \in Threads : ExtenderStep(t)) => logger_sync' = logger_sync]_vars
  /\ [](\A t \in Threads : ExtenderNeverWaits(t))

\* an extender's destructor has stored while another thread owns a widget
\* and the Output Mutex
C18_Witness ==
  \E t, u \in Threads :
    /\ pc[t] = "ext_ret"
    /\ OwnsWidget(u)
    /\ logger_sync = u
    /\ u # t

(***************************************************************************)
(* C19.                                                                    *)
(***************************************************************************)
\* the thread is inside setup_color: called by log, or on its own
InSetupColor(t) == pc[t] \in {"log_color", "idle"}

\* this step is the trap of setup_color on thread t
SetupColorTrapStep(t) == InSetupColor(t) /\ pc'[t] = "trapped"

\* the thread has stopped in the trap of the setup_color that log called
\* first: its call has locked the mutex and done nothing else
TrappedInLog(t) ==
  /\ pc[t] = "trapped"
  /\ frame[t].op \in {"log", "error"}
  /\ frame[t].steps = <<<<"lock", t>>, <<"trap", 0>>>>

\* the call of thread t has written nothing: no printf among its steps, no
\* output formatted, no write of its call in the trace
NothingWritten(t) ==
  /\ frame[t].out = << >>
  /\ \A i \in DOMAIN frame[t].steps : frame[t].steps[i][1] # "write"
  /\ \A i \in DOMAIN trace : ~(trace[i].thr = t /\ trace[i].ev = "write")

\* C19: with no output handle (GetStdHandle returns INVALID_HANDLE_VALUE), a
\* call of setup_color has one possible step, the trap, and that step leaves
\* the console attribute as it was; the trapped thread takes no further step
\* (no retry, no fallback).  When the setup_color is the one log calls, the
\* thread is trapped with no character of its message written and with the
\* mutex still owned by its call.
C19_InvalidHandleTraps ==
  /\ [][\A t \in Threads :
         /\ (out_handle = INVALID_HANDLE_VALUE /\ pc[t] = "log_color"
              /\ pc'[t] # pc[t]) => pc'[t] = "trapped"
         /\ (out_handle = INVALID_HANDLE_VALUE /\ pc[t] = "idle"
              /\ pc'[t] # pc[t] /\ frame'[t].op = "setup_color")
              => pc'[t] = "trapped"
         /\ SetupColorTrapStep(t)
              => out_handle = INVALID_HANDLE_VALUE /\ attr' = attr
                 /\ screen' = screen /\ logger_sync' = logger_sync
         /\ pc[t] = "trapped" => pc'[t] = "trapped" /\ frame'[t] = frame[t]]_vars
  /\ [](\A t \in Threads :
         TrappedInLog(t) => logger_sync = t /\ NothingWritten(t))
  /\ [](out_handle = INVALID_HANDLE_VALUE =>
           /\ attr \in {wcon_gray, wcon_cyan}
           /\ \A t \in Threads : pc[t] \notin {"log_printf", "log_reset",
                                                "log_return", "err_break",
                                                "color_set", "color_reset"})

\* a thread trapped in the setup_color of its log call, the mutex its own,
\* another thread waiting for the mutex, the attribute not the call's color
C19_Witness ==
  \E t, u \in Threads :
    /\ TrappedInLog(t)
    /\ frame[t].op = "log"
    /\ logger_sync = t
    /\ pc[u] = "log_lock"
    /\ attr # frame[t].color
    /\ attr = wcon_cyan

====
